---- MODULE Spec2Model ----
(***************************************************************************)
(* Verification model of progress-agent/underground (src/src/main.js,      *)
(* src/src/tfl.js, src/src/depth.js).                                      *)
(*                                                                         *)
(* Numbers.  JavaScript numbers are modelled by integers:                  *)
(*   - a curve parameter u is held in units of 1/UDen (u = 1.0 is UDen);   *)
(*   - times (dt, simDt, _pausedLeft, dwellSec) are whole seconds;         *)
(*   - lengths are whole metres.                                           *)
(* Each part of the program has its own specification (SpecTrains,         *)
(* SpecRegistry, SpecFetch, SpecBuild, ...) over the one tuple of variables.*)
(***************************************************************************)
EXTENDS Integers, Sequences, FiniteSets, TLC

VARIABLES
    \* ---- train motion (main.js: sim, tick) ----
    paused,        \* sim.paused
    timeScale,     \* sim.timeScale
    stationUs,     \* train.userData.stationUs: sorted u-values of the branch
    curveLengthM,  \* train.userData.curveLengthM
    trains,        \* sim.trains: train -> [dir, t, nextStationIndex, pausedLeft, position]
    simDt,         \* tick(): const simDt of the most recent tick
    crossed,       \* tick(): const crossed of the most recent tick, per train
    negDelta,      \* history: some tick so far had a negative simDt
    \* ---- station registry (main.js: sharedStationPositions) ----
    horizontalScale,         \* sim.horizontalScale
    sharedStationPositions,  \* Map key -> [x, z, lat, lon]; Absent when no entry
    regCall,                 \* the most recent registry call and what it returned
    firstReg,                \* history: key -> arguments of the call that created the entry
    \* ---- TfL fetch helpers (tfl.js) ----
    now,           \* Date.now(), in days
    localCache,    \* localStorage under CACHE_PREFIX: url -> [t, v]
    storageFull,   \* localStorage.setItem throws (quota / private mode)
    liveOk,        \* the TfL API answers requests with a 2xx JSON body
    bundledFiles,  \* line ids with a file /data/tfl/route-sequence/<id>.json
    fjCall,        \* the fetchJson call that has just returned: arguments, what it
                   \* saw, what it gave (none once the environment has moved on)
    \* ---- network build (main.js: buildNetworkMvp) ----
    bpc,               \* where buildNetworkMvp is: start, fetch, retry, summary, done
    bundledIndex,      \* /data/tfl/route-sequence/index.json: Null or [lines]
    navigatorOnLine,   \* navigator.onLine
    wanted,            \* const wanted: the line ids to render, in order
    lineIdx,           \* position in wanted of the for-of loop (1-based)
    failed,            \* const failed
    loadedCount,       \* let loadedCount
    usedCacheFallback, \* let usedCacheFallback
    netStatus,         \* what setNetStatus showed last: [kind, text]
    attempted,         \* history: the ids whose loop body has started, in order
    lineSeq,           \* history: id -> what its fetches finally gave ([outcome, value])
    \* ---- route assembly (main.js: extractBranches ... addLineFromStopPoints) ----
    fnCall,            \* the call of a route-assembly function that has just
                       \* returned: its name, arguments and result
    centerPoints,      \* history: every centerline point built so far,
                       \* [line, id, key, lat, lon, x, z, y]
    \* ---- camera controls and line visibility (main.js) ----
    controlsEnabled,   \* controls.enabled (OrbitControls)
    keysHeld,          \* fpsControls.keys holds a movement key
    loadTimer,         \* the post-load timeout (1134-1139): none, pending, fired
    lineVisible,       \* lineGroups: id of a built group -> group.visible
    solo,              \* history: the value applySoloSelection was last called
                       \* with by a handler, "none" before
    urlFocusLine       \* the URL parameter focus ("" when absent)

trainVars == <<paused, timeScale, stationUs, curveLengthM, trains, simDt, crossed, negDelta>>
registryVars == <<horizontalScale, sharedStationPositions, regCall, firstReg>>
fetchVars == <<now, localCache, storageFull, liveOk, bundledFiles, fjCall>>
buildVars == <<bpc, bundledIndex, navigatorOnLine, wanted, lineIdx, failed, loadedCount,
               usedCacheFallback, netStatus, attempted, lineSeq>>
geoVars == <<fnCall, centerPoints>>
uiVars == <<controlsEnabled, keysHeld, loadTimer, lineVisible, solo, urlFocusLine>>
vars == <<trainVars, registryVars, fetchVars, buildVars, geoVars, uiVars>>

MaxOf(a, b) == IF a >= b THEN a ELSE b

(***************************************************************************)
(* Train motion simulator: makeTrain (main.js 793-813), tick (1601-1659).  *)
(***************************************************************************)

\* Resolution of the curve parameter: u = k / UDen.
UDen == 20
\* Largest remaining dwell followed (a negative simDt makes it grow).
MaxPausedLeft == 30
\* Largest frame delta (seconds) the clock hands to a tick.
MaxDt == 3

\* main.js 798-799
cruiseMps == 12
dwellSec == 22

\* One branch carries two trains: left bore dir +1, right bore dir -1 (812-813).
Trains == {1, 2}
DirOf(tr) == IF tr = 1 THEN 1 ELSE -1

\* Values of sim.timeScale at start-up (main.js 331): the URL parameter t is
\* any finite number (getUrlNumberParam, 306-311), else the stored
\* preference, else 8.
UrlTimeScales == {-8, 8}
\* Values the timeScale slider sets (main.js 368): Number(el.value) || 1.
SliderTimeScales == {1, 8}
DtValues == 0..MaxDt

\* Centerline polylines, as the lengths (metres) of their segments.
Polylines == { <<120, 120>>, <<12, 228>>, <<120, 0, 120>> }

RECURSIVE SumSeq(_)
SumSeq(s) == IF s = <<>> THEN 0 ELSE s[1] + SumSeq(Tail(s))

\* stationUsFromPolyline: cumulative distance over total length, 0 for every
\* vertex when the total is not positive.  segs[i] is the distance between
\* centerPts[i] and centerPts[i-1].
StationUsFromPolyline(segs) ==
    LET total == SumSeq(segs)
        cum(i) == SumSeq(SubSeq(segs, 1, i - 1))
    IN  IF total <= 0
        THEN [i \in 1..(Len(segs) + 1) |-> 0]
        ELSE [i \in 1..(Len(segs) + 1) |-> (cum(i) * UDen) \div total]

\* makeTrain: the userData of a new train.
MakeTrain(dir, t0, n) ==
    [dir |-> dir, t |-> t0,
     nextStationIndex |-> IF dir = 1 THEN 0 ELSE n - 1,
     pausedLeft |-> 0, position |-> t0]

InitTrains ==
    /\ paused \in BOOLEAN
    /\ timeScale \in UrlTimeScales
    /\ \E segs \in Polylines :
         /\ stationUs = StationUsFromPolyline(segs)
         /\ curveLengthM = SumSeq(segs)
    /\ \E t1 \in 0..(UDen - 1), t2 \in 0..(UDen - 1) :
         trains = [tr \in Trains |->
                     MakeTrain(DirOf(tr), IF tr = 1 THEN t1 ELSE t2, Len(stationUs))]
    /\ simDt = 0
    /\ crossed = [tr \in Trains |-> FALSE]
    /\ negDelta = FALSE

\* sim before any line is built: no trains (main.js 327-334)
InitNoTrains ==
    /\ paused = FALSE
    /\ timeScale = 8
    /\ stationUs = << >>
    /\ curveLengthM = 0
    /\ trains = << >>
    /\ simDt = 0
    /\ crossed = << >>
    /\ negDelta = FALSE

\* tick 1619
SimDtOf(dt) == IF paused THEN 0 ELSE dt * timeScale

\* tick 1622: the train is dwelling
Dwelling(train) == train.pausedLeft > 0

\* tick 1623
DwellStep(left, sdt) == MaxOf(0, left - sdt)

\* tick 1627: du = cruiseMps * simDt / max(1e-6, curveLengthM), in units of 1/UDen
\* (a whole number of metres is at least 1e-6 exactly when it is positive)
Du(sdt) ==
    IF curveLengthM > 0
    THEN (cruiseMps * sdt * UDen) \div curveLengthM
    ELSE cruiseMps * sdt * UDen * 1000000

\* tick 1630-1632: one subtraction, then one addition
Wrap(u) ==
    LET a == IF u >= UDen THEN u - UDen ELSE u
    IN  IF a < 0 THEN a + UDen ELSE a

\* tick 1641-1643
CrossedTest(dir, prevU, u, targetU) ==
    IF dir = 1
    THEN (prevU <= targetU /\ u >= targetU) \/ (prevU > u /\ (u >= targetU \/ prevU <= targetU))
    ELSE (prevU >= targetU /\ u <= targetU) \/ (prevU < u /\ (u <= targetU \/ prevU >= targetU))

\* tick 1649-1653
NextIndexForward(dir, idx, n) == (idx + 1) % n
NextIndexStay(dir, idx, n) == idx
NextIndex(dir, idx, n) ==
    IF dir = 1 THEN (idx + 1) % n ELSE (idx - 1 + n) % n

\* tick 1636-1643: the value of `crossed` for a train that is not dwelling
CrossedFor(train, sdt) ==
    /\ Len(stationUs) > 0
    /\ CrossedTest(train.dir, train.t, Wrap(train.t + train.dir * Du(sdt)),
                   stationUs[train.nextStationIndex + 1])

\* tick 1620-1659: the body of the loop for one train
TickTrain(train, sdt) ==
    IF Dwelling(train)
    THEN [train EXCEPT !.pausedLeft = DwellStep(train.pausedLeft, sdt)]
    ELSE LET idx == train.nextStationIndex
             u == Wrap(train.t + train.dir * Du(sdt))
         IN  IF CrossedFor(train, sdt)
             THEN [train EXCEPT !.t = stationUs[idx + 1],
                                !.position = stationUs[idx + 1],
                                !.pausedLeft = dwellSec,
                                !.nextStationIndex = NextIndex(train.dir, idx, Len(stationUs))]
             ELSE [train EXCEPT !.t = u, !.position = u]

\* main.js 1604-1613 with updateFpsControls (171-183): controls.enabled
\* after a frame.  While a movement key is held the frame disables the
\* orbit controls; otherwise it enables them whenever they are disabled.
ControlsAfterTick == ~keysHeld

\* tick: one animation frame with clock delta dt
Tick ==
    \E dt \in DtValues :
        /\ simDt' = SimDtOf(dt)
        /\ negDelta' = (negDelta \/ SimDtOf(dt) < 0)
        /\ trains' = [tr \in Trains |-> TickTrain(trains[tr], SimDtOf(dt))]
        /\ crossed' = [tr \in Trains |->
                          ~Dwelling(trains[tr]) /\ CrossedFor(trains[tr], SimDtOf(dt))]
        \* model bound: runs in which a parameter drifts beyond one loop outside
        \* [0, 1], or a dwell grows beyond MaxPausedLeft, are cut off
        /\ \A tr \in Trains : trains'[tr].t \in (0 - UDen)..(2 * UDen)
        /\ \A tr \in Trains : trains'[tr].pausedLeft <= MaxPausedLeft
        /\ controlsEnabled' = ControlsAfterTick
        /\ UNCHANGED <<paused, timeScale, stationUs, curveLengthM, registryVars, fetchVars,
                       buildVars, geoVars, keysHeld, loadTimer, lineVisible, solo, urlFocusLine>>

\* toggleSimPaused / setSimPaused (1391-1400)
ToggleSimPaused ==
    /\ paused' = ~paused
    /\ UNCHANGED <<timeScale, stationUs, curveLengthM, trains, simDt, crossed, negDelta, registryVars, fetchVars, buildVars, geoVars, uiVars>>

\* the timeScale slider (366-371)
SetTimeScale ==
    /\ \E v \in SliderTimeScales : v # timeScale /\ timeScale' = v
    /\ UNCHANGED <<paused, stationUs, curveLengthM, trains, simDt, crossed, negDelta, registryVars, fetchVars, buildVars, geoVars, uiVars>>

NextTrains == Tick \/ ToggleSimPaused \/ SetTimeScale

(***************************************************************************)
(* Properties of the train motion simulator.                               *)
(***************************************************************************)
StationCount == Len(stationUs)
TargetU(train) == stationUs[train.nextStationIndex + 1]
\* index of the station before the train's target, in its direction of travel
PrevIndex(train) == (train.nextStationIndex - train.dir + StationCount) % StationCount

\* C2: on a tick in which a train's remaining dwell is > 0, its parameter t,
\* its position and its nextStationIndex are unchanged, whatever simDt is;
\* only the remaining dwell goes down.
C2_DwellBlocksMotion ==
    [][Tick => \A tr \in Trains :
          trains[tr].pausedLeft > 0 =>
              /\ trains'[tr].t = trains[tr].t
              /\ trains'[tr].position = trains[tr].position
              /\ trains'[tr].nextStationIndex = trains[tr].nextStationIndex
              /\ trains'[tr].pausedLeft <= trains[tr].pausedLeft]_vars

\* a dwell in progress that a tick with positive simDt has shortened
C2_Witness ==
    \E tr \in Trains :
        /\ trains[tr].pausedLeft \in 1..(dwellSec - 1)
        /\ simDt > 0
        /\ trains[tr].t = stationUs[PrevIndex(trains[tr]) + 1]

\* C3: on a tick that detects a crossing the train's t is the target's
\* u-value, its remaining dwell is dwellSec and nextStationIndex has moved by
\* +1 (dir +1) or -1 (dir -1) modulo the station count; on a tick that detects
\* none, the index is unchanged, the dwell is not raised to dwellSec and a
\* cruising train is not at its target's u-value.
C3_CrossingEffects ==
    [][Tick => \A tr \in Trains :
          LET a == trains[tr]
              b == trains'[tr]
              n == Len(stationUs)
          IN  /\ crossed'[tr] =>
                    /\ b.t = stationUs[a.nextStationIndex + 1]
                    /\ b.pausedLeft = dwellSec
                    /\ b.nextStationIndex =
                          (IF a.dir = 1 THEN (a.nextStationIndex + 1) % n
                                        ELSE (a.nextStationIndex - 1 + n) % n)
              /\ ~crossed'[tr] =>
                    /\ b.nextStationIndex = a.nextStationIndex
                    /\ (b.pausedLeft = dwellSec => a.pausedLeft >= dwellSec)
                    /\ (a.pausedLeft = 0 => b.t # stationUs[a.nextStationIndex + 1])]_vars

\* both trains have just stopped: train 1 at the last station, its index
\* wrapping to 0, and train 2 at station 0, its index wrapping to n - 1
C3_Witness ==
    /\ crossed[1] /\ trains[1].pausedLeft = dwellSec
    /\ trains[1].nextStationIndex = 0 /\ trains[1].t = stationUs[Len(stationUs)]
    /\ crossed[2] /\ trains[2].pausedLeft = dwellSec
    /\ trains[2].nextStationIndex = Len(stationUs) - 1 /\ trains[2].t = stationUs[1]

\* The step of a cruising train from prevU over du > 0 in its direction of
\* travel passes targetU: directly (k = 0), or after wrapping k times through
\* 0/1.  As in tick(), a train going up wraps on reaching u = 1 and a train
\* going down wraps on going below u = 0.
PassesTarget(dir, prevU, du, targetU) ==
    \E k \in 0..3 :
        IF dir = 1
        THEN prevU <= targetU + k * UDen /\ targetU + k * UDen <= prevU + du
        ELSE /\ prevU - du <= targetU - k * UDen /\ targetU - k * UDen <= prevU
             /\ (k > 0 => prevU - du < 0 - (k - 1) * UDen)

\* C4: every tick whose step carries a cruising train past its target's
\* u-value, directly or by wrapping through 0/1, detects the crossing.
C4_NeverMissesTarget ==
    [][Tick => \A tr \in Trains :
          (/\ trains[tr].pausedLeft = 0
           /\ Du(simDt') > 0
           /\ PassesTarget(trains[tr].dir, trains[tr].t, Du(simDt'), TargetU(trains[tr])))
          => crossed'[tr]]_vars

\* C5: in every state reached by ticks with non-negative simulated deltas,
\* every train's parameter satisfies 0 <= t < 1.
C5_UInRange ==
    ~negDelta => \A tr \in Trains : 0 <= trains[tr].t /\ trains[tr].t < UDen

\* C6: a tick taken while the simulation is paused changes no train.
C6_PausedTickNoEffect ==
    [][(Tick /\ paused) => trains' = trains]_vars

\* C7: the remaining dwell is always within [0, dwellSec]; a dwelling tick
\* lowers it by exactly simDt, floored at 0, and does not move the train;
\* a train moves only on a tick that starts with no dwell left, and every
\* such tick applies the cruise step (or stops the train at its target).
C7_DwellCountdown ==
    /\ [](\A tr \in Trains : trains[tr].pausedLeft \in 0..dwellSec)
    /\ [][Tick => \A tr \in Trains :
             LET a == trains[tr]
                 b == trains'[tr]
             IN  /\ a.pausedLeft > 0 =>
                       /\ b.pausedLeft = MaxOf(0, a.pausedLeft - simDt')
                       /\ b.t = a.t
                 /\ b.t # a.t => a.pausedLeft = 0
                 /\ a.pausedLeft = 0 =>
                       \/ crossed'[tr]
                       \/ b.t = Wrap(a.t + a.dir * Du(simDt'))]_vars

\* a train whose dwell has run out, still at the station it stopped at
C7_Witness ==
    \E tr \in Trains :
        /\ trains[tr].pausedLeft = 0
        /\ ~crossed[tr]
        /\ simDt > 0
        /\ trains[tr].nextStationIndex # (IF trains[tr].dir = 1 THEN 0 ELSE StationCount - 1)
        /\ trains[tr].t = stationUs[PrevIndex(trains[tr]) + 1]

\* C24: a train stops at every station it passes: on any tick whose step
\* carries a cruising train across the u-value of any station of its branch,
\* whether or not that station is its current target, the tick detects a
\* crossing and leaves the train dwelling at a station the step has passed.
C24_StopsAtEveryStationPassed ==
    [][Tick => \A tr \in Trains :
          LET a == trains[tr]
              b == trains'[tr]
              passed == {j \in DOMAIN stationUs :
                            PassesTarget(a.dir, a.t, Du(simDt'), stationUs[j])}
          IN  (a.pausedLeft = 0 /\ Du(simDt') > 0 /\ passed # {}) =>
                  /\ crossed'[tr]
                  /\ b.pausedLeft = dwellSec
                  /\ \E j \in passed : b.t = stationUs[j]]_vars

\* a tick with a positive simulated delta
TickPositive == Tick /\ simDt' > 0

\* C25: if unpaused ticks with a positive simulated delta keep occurring,
\* every train begins a dwell at its target again and again: no train
\* cruises forever without stopping, whatever the step size.
C25_Progress ==
    \A tr \in Trains : ([]<><<TickPositive>>_vars) => []<>(crossed[tr])

\* C26: every train's nextStationIndex is a valid index 0..n-1 of its
\* station table; a train that has just stopped is at the station whose
\* index is nextStationIndex minus its direction modulo n, and the index
\* changes only at a stop, by the direction modulo n, so that the stops
\* follow the cyclic index order.
C26_NextStationIndexCyclic ==
    /\ [](\A tr \in Trains :
             /\ trains[tr].nextStationIndex \in 0..(StationCount - 1)
             /\ crossed[tr] =>
                   /\ trains[tr].t = stationUs[PrevIndex(trains[tr]) + 1]
                   /\ trains[tr].pausedLeft = dwellSec)
    /\ [][\A tr \in Trains :
             LET a == trains[tr]
                 b == trains'[tr]
             IN  b.nextStationIndex # a.nextStationIndex =>
                     /\ crossed'[tr]
                     /\ b.nextStationIndex =
                           (a.nextStationIndex + a.dir + StationCount) % StationCount
                     /\ b.t = stationUs[a.nextStationIndex + 1]]_vars

\* train 2, going down, has just stopped at the middle station and targets
\* station 0, while train 1, going up, has stopped at station 0 before and
\* targets the middle station
C26_Witness ==
    /\ StationCount = 3
    /\ crossed[2] /\ trains[2].nextStationIndex = 0 /\ trains[2].t = stationUs[2]
    /\ trains[1].nextStationIndex = 1 /\ trains[1].pausedLeft = 0

(***************************************************************************)
(* Station registry (main.js 619-653).                                     *)
(***************************************************************************)
\* Station ids are strings, held as sequences of characters.  None is a
\* missing id (undefined / null / '').
None == <<>>
RawIds == { None, <<" ">>, <<"a">>, <<" ", "a">>, <<"a", " ">>, <<"b">> }

\* String.prototype.trim
RECURSIVE TrimLeft(_)
TrimLeft(s) == IF s # <<>> /\ s[1] = " " THEN TrimLeft(Tail(s)) ELSE s
RECURSIVE TrimRight(_)
TrimRight(s) ==
    IF s # <<>> /\ s[Len(s)] = " " THEN TrimRight(SubSeq(s, 1, Len(s) - 1)) ELSE s
Trim(s) == TrimRight(TrimLeft(s))

\* Latitude and longitude are held in units of 1e-4 degree, x and z in units
\* of 1e-4 metre.
ORIGIN == [lat |-> 515074, lon |-> -1278]
METRES_PER_DEG_LAT == 111320
\* metresPerDegLonAt(ORIGIN.lat) = 111320 * cos(51.5074 deg), to the metre
MetresPerDegLonAtOrigin == 69287

\* <<lat, lon>> pairs that route data supplies for a stop
Coords == { <<515074, -1278>>, <<515174, -1378>>, <<515074, -1378>> }
\* values of sim.horizontalScale
HorizontalScales == {1, 2}

\* llToXZ with sim.horizontalScale = hs
LlToXZ(lat, lon, hs) ==
    LET dLon == lon - ORIGIN.lon
        dLat == lat - ORIGIN.lat
        x == dLon * MetresPerDegLonAtOrigin * hs
        z == dLat * METRES_PER_DEG_LAT * hs
    IN  [x |-> x, z |-> 0 - z]

\* JavaScript undefined and null, and a map without an entry for a key
Undefined == [undefined |-> TRUE]
Null == [null |-> TRUE]
Absent == [absent |-> TRUE]

\* registerStationPosition 641: sharedStationPositions.has(key)
HasEntryNever(key) == FALSE
HasEntry(key) == key \in DOMAIN sharedStationPositions

\* the entry registerStationPosition stores and returns for a new key
NewEntry(lat, lon) ==
    [x |-> LlToXZ(lat, lon, horizontalScale).x,
     z |-> LlToXZ(lat, lon, horizontalScale).z,
     lat |-> lat, lon |-> lon]

\* registerStationPosition(naptanId, lat, lon): the value returned
RegisterReturn(id, lat, lon) ==
    IF id = None THEN Undefined
    ELSE IF HasEntry(Trim(id)) THEN sharedStationPositions[Trim(id)]
    ELSE NewEntry(lat, lon)

\* registerStationPosition(naptanId, lat, lon): the map afterwards
RegisterStore(id, lat, lon) ==
    IF id = None \/ HasEntry(Trim(id)) THEN sharedStationPositions
    ELSE [k \in DOMAIN sharedStationPositions \cup {Trim(id)} |->
            IF k = Trim(id) THEN NewEntry(lat, lon) ELSE sharedStationPositions[k]]

\* getStationPosition(naptanId): the value returned
GetStationPosition(id) ==
    IF id = None THEN Null
    ELSE IF Trim(id) \in DOMAIN sharedStationPositions
         THEN sharedStationPositions[Trim(id)]
         ELSE Undefined

InitRegistry ==
    /\ horizontalScale = 1
    /\ sharedStationPositions = << >>
    /\ regCall = [op |-> "none"]
    /\ firstReg = << >>

\* a call of registerStationPosition
RegisterStationPosition ==
    \E id \in RawIds, c \in Coords :
        /\ sharedStationPositions' = RegisterStore(id, c[1], c[2])
        /\ regCall' = [op |-> "register", id |-> id, lat |-> c[1], lon |-> c[2],
                       ret |-> RegisterReturn(id, c[1], c[2])]
        \* history: the arguments of the first registration of each key
        /\ firstReg' =
              IF id = None \/ Trim(id) \in DOMAIN firstReg THEN firstReg
              ELSE [k \in DOMAIN firstReg \cup {Trim(id)} |->
                      IF k = Trim(id)
                      THEN [lat |-> c[1], lon |-> c[2], hs |-> horizontalScale]
                      ELSE firstReg[k]]
        /\ UNCHANGED <<horizontalScale, trainVars, fetchVars, buildVars, geoVars, uiVars>>

\* a call of getStationPosition
LookupStationPosition ==
    \E id \in RawIds :
        /\ regCall' = [op |-> "get", id |-> id, ret |-> GetStationPosition(id)]
        /\ UNCHANGED <<horizontalScale, sharedStationPositions, firstReg, trainVars, fetchVars, buildVars, geoVars, uiVars>>

\* the horizontal-scale slider's input handler (408-413)
SetHorizontalScale ==
    /\ \E v \in HorizontalScales : v # horizontalScale /\ horizontalScale' = v
    /\ UNCHANGED <<sharedStationPositions, regCall, firstReg, trainVars, fetchVars, buildVars, geoVars, uiVars>>

NextRegistry == RegisterStationPosition \/ LookupStationPosition \/ SetHorizontalScale

\* the position computed from the arguments of the first registration of key
FirstPosition(key) ==
    LET f == firstReg[key]
    IN  [x |-> LlToXZ(f.lat, f.lon, f.hs).x, z |-> LlToXZ(f.lat, f.lon, f.hs).z,
         lat |-> f.lat, lon |-> f.lon]

\* C1: for every station id (a non-empty id, ids compared after trimming),
\* the stored entry is the position computed from the first registration's
\* (lat, lon); every registerStationPosition and every getStationPosition of
\* a registered id returns exactly that position, whatever coordinates later
\* registrations pass.
C1_RegistryIdempotent ==
    /\ DOMAIN sharedStationPositions = DOMAIN firstReg
    /\ \A key \in DOMAIN firstReg : sharedStationPositions[key] = FirstPosition(key)
    /\ (regCall.op \in {"register", "get"} /\ regCall.id # None
          /\ Trim(regCall.id) \in DOMAIN firstReg)
       => regCall.ret = FirstPosition(Trim(regCall.id))
    /\ (regCall.op = "register" /\ regCall.id # None)
       => Trim(regCall.id) \in DOMAIN firstReg

\* a registration of an already registered id with other coordinates has
\* just returned the first position
C1_Witness ==
    /\ regCall.op = "register" /\ regCall.id # None
    /\ Trim(regCall.id) \in DOMAIN firstReg
    /\ <<regCall.lat, regCall.lon>> #
          <<firstReg[Trim(regCall.id)].lat, firstReg[Trim(regCall.id)].lon>>
    /\ regCall.ret = FirstPosition(Trim(regCall.id))
    /\ LlToXZ(regCall.lat, regCall.lon, horizontalScale).z # regCall.ret.z

(***************************************************************************)
(* TfL fetch helpers (tfl.js 8-99).                                        *)
(***************************************************************************)
\* Largest value of the clock (days since the page was first opened).
MaxNow == 3

\* tfl.js 9: DEFAULT_TTL_MS, and the 7-day ttl buildNetworkMvp retries with
\* (main.js 1006), in days
DEFAULT_TTL == 1
RETRY_TTL == 7
Ttls == {DEFAULT_TTL, RETRY_TTL}

LineIds == {"bakerloo", "victoria"}

\* The two kinds of URL the program fetches: fetchRouteSequence(lineId)
\* (tfl.js 97-99) and fetchTubeLines() (tfl.js 86-88).
RouteSequenceUrl(lineId) == [kind |-> "route-sequence", line |-> lineId]
TubeLinesUrl == [kind |-> "mode-tube", line |-> "-"]

\* JSON payloads the live API serves (TfL payloads are objects or arrays,
\* which are truthy), and the payload of a bundled file.
LivePayloads == {[from |-> "api", body |-> "v1"], [from |-> "api", body |-> "v2"]}
BundledPayload(lineId) == [from |-> "bundle", body |-> lineId]

OptSets == [ttl : Ttls, useCache : BOOLEAN, preferCache : BOOLEAN,
            allowBundledFallback : BOOLEAN]

\* cacheGet 24: the entry is older than the ttl
ExpiredNever(entry, ttl) == FALSE
Expired(entry, ttl) == (now - entry.t) > ttl

\* cacheGet(url, {ttlMs}): the cached value, or Null
CacheGet(url, ttl) ==
    IF url \notin DOMAIN localCache THEN Null
    ELSE IF Expired(localCache[url], ttl) THEN Null
    ELSE localCache[url].v

\* an entry once written is kept
CacheSetKeepFirst(url, value) ==
    IF storageFull \/ url \in DOMAIN localCache THEN localCache
    ELSE [u \in DOMAIN localCache \cup {url} |->
            IF u = url THEN [t |-> now, v |-> value] ELSE localCache[u]]

\* cacheSet(url, value): localStorage afterwards; a failing setItem is ignored
CacheSet(url, value) ==
    IF storageFull THEN localCache
    ELSE [u \in DOMAIN localCache \cup {url} |->
            IF u = url THEN [t |-> now, v |-> value] ELSE localCache[u]]

\* bundledCacheUrlForTfl(url): only route-sequence URLs have a bundled file
BundledCacheUrlForTfl(url) ==
    IF url.kind = "route-sequence" THEN [path |-> "route-sequence", line |-> url.line]
    ELSE Null

\* fetchBundledJsonFor(url), with the .catch(() => null) of its caller
FetchBundledJsonFor(url) ==
    IF BundledCacheUrlForTfl(url) = Null THEN Null
    ELSE IF url.line \notin bundledFiles THEN Null
    ELSE BundledPayload(url.line)

\* fetchJson 60: const cached
CachedFor(url, o) == IF o.useCache THEN CacheGet(url, o.ttl) ELSE Null

\* fetchJson 61: if (preferCache && cached) return cached
ShortCut(url, o) == o.preferCache /\ CachedFor(url, o) # Null

\* fetchJson(url, o) when the live request would answer `live` (Null: it fails):
\* [outcome, value], outcome "throw" carrying the live-fetch error
FetchJsonResult(url, o, live) ==
    LET cached == CachedFor(url, o)
    IN  IF ShortCut(url, o) THEN [outcome |-> "cache", value |-> cached]
        ELSE IF live # Null THEN [outcome |-> "live", value |-> live]
        ELSE IF cached # Null THEN [outcome |-> "cache", value |-> cached]
        ELSE IF o.allowBundledFallback /\ FetchBundledJsonFor(url) # Null
             THEN [outcome |-> "bundled", value |-> FetchBundledJsonFor(url)]
        ELSE [outcome |-> "throw", value |-> [error |-> "live fetch"]]

\* fetchJson(url, o): localStorage afterwards (line 70)
FetchJsonCache(url, o, live) ==
    IF ~ShortCut(url, o) /\ live # Null /\ o.useCache
    THEN CacheSet(url, live)
    ELSE localCache

InitFetch ==
    /\ now = 0
    /\ localCache = << >>
    /\ storageFull = FALSE
    /\ liveOk \in BOOLEAN
    /\ bundledFiles \in SUBSET LineIds
    /\ fjCall = [op |-> "none"]

\* what a live request answers now
LiveAnswers == IF liveOk THEN LivePayloads ELSE {Null}

\* the URLs of the calls: one line's route sequence, and the line list
CalledUrls == {RouteSequenceUrl("victoria"), TubeLinesUrl}

\* one call of fetchJson
FetchJson ==
    \E url \in CalledUrls, o \in OptSets, live \in LiveAnswers :
        /\ fjCall' = [op |-> "fetchJson", url |-> url, opts |-> o,
                      \* what the call saw
                      at |-> now, live |-> live,
                      entry |-> IF url \in DOMAIN localCache THEN localCache[url] ELSE Absent,
                      bundled |-> url.kind = "route-sequence" /\ url.line \in bundledFiles,
                      \* what it gave
                      result |-> FetchJsonResult(url, o, live)]
        /\ localCache' = FetchJsonCache(url, o, live)
        /\ UNCHANGED <<now, storageFull, liveOk, bundledFiles, trainVars, registryVars, buildVars, geoVars, uiVars>>

\* environment: a day passes
ClockAdvance ==
    /\ now < MaxNow
    /\ now' = now + 1
    /\ fjCall' = [op |-> "none"]
    /\ UNCHANGED <<localCache, storageFull, liveOk, bundledFiles, trainVars, registryVars, buildVars, geoVars, uiVars>>

\* environment: the network or the TfL API goes down or comes back
LiveToggle ==
    /\ liveOk' = ~liveOk
    /\ fjCall' = [op |-> "none"]
    /\ UNCHANGED <<now, localCache, storageFull, bundledFiles, trainVars, registryVars, buildVars, geoVars, uiVars>>

\* environment: localStorage fills up or is freed
StorageToggle ==
    /\ storageFull' = ~storageFull
    /\ fjCall' = [op |-> "none"]
    /\ UNCHANGED <<now, localCache, liveOk, bundledFiles, trainVars, registryVars, buildVars, geoVars, uiVars>>

NextFetch == FetchJson \/ ClockAdvance \/ LiveToggle \/ StorageToggle

\* The sources as the most recent call found them.
CallFresh ==
    /\ fjCall.opts.useCache
    /\ fjCall.entry # Absent
    /\ fjCall.at - fjCall.entry.t <= fjCall.opts.ttl
CallLiveOk == fjCall.live # Null
CallBundled == fjCall.opts.allowBundledFallback /\ fjCall.bundled

\* the chain live -> cache -> bundled -> throw for the most recent call
ChainResult ==
    IF CallLiveOk THEN [outcome |-> "live", value |-> fjCall.live]
    ELSE IF CallFresh THEN [outcome |-> "cache", value |-> fjCall.entry.v]
    ELSE IF CallBundled THEN [outcome |-> "bundled", value |-> BundledPayload(fjCall.url.line)]
    ELSE [outcome |-> "throw", value |-> [error |-> "live fetch"]]

\* C8 as stated: fetchJson returns the live data whenever the live fetch
\* succeeds, else the cached value if one exists within the ttl, else the
\* bundled JSON if allowed and available, and throws the live-fetch error
\* only when all three fail.
C8_LiveCacheBundled ==
    fjCall.op = "fetchJson" => fjCall.result = ChainResult

\* C8 amended: when preferCache is set and a cached value exists within the
\* ttl, fetchJson returns that value without trying the live fetch; in every
\* other case it follows the chain live -> cache -> bundled and throws the
\* live-fetch error only when all three fail.
C8_FallbackChain ==
    fjCall.op = "fetchJson" =>
        IF fjCall.opts.preferCache /\ CallFresh
        THEN fjCall.result = [outcome |-> "cache", value |-> fjCall.entry.v]
        ELSE fjCall.result = ChainResult

\* the live fetch failed, the cached entry was older than the ttl and the
\* bundled file answered
C8_Witness ==
    /\ fjCall.op = "fetchJson"
    /\ ~CallLiveOk /\ fjCall.opts.useCache /\ fjCall.entry # Absent /\ ~CallFresh
    /\ fjCall.result.outcome = "bundled"

\* the most recent call found an entry of its URL no older than its ttl,
\* and its live request failed
FailsWithinTtl ==
    /\ fjCall.op = "fetchJson"
    /\ ~CallLiveOk
    /\ fjCall.entry # Absent
    /\ fjCall.at - fjCall.entry.t <= fjCall.opts.ttl

\* only a live fetch that succeeds with useCache changes the cache (a failed
\* one never does), and a value from the cache comes from an entry no older
\* than the call's ttl
CacheOnlyFresh ==
    /\ [][localCache' # localCache =>
            /\ fjCall'.op = "fetchJson"
            /\ fjCall'.result.outcome = "live"
            /\ fjCall'.opts.useCache]_vars
    /\ [](fjCall.op = "fetchJson" /\ fjCall.result.outcome = "cache" =>
            /\ fjCall.entry # Absent
            /\ fjCall.at - fjCall.entry.t <= fjCall.opts.ttl
            /\ fjCall.result.value = fjCall.entry.v)

HardCodedLines == <<"bakerloo", "central", "victoria">>

\* Array.prototype.sort on the line ids: their lexicographic rank
LineRank(id) ==
    CASE id = "bakerloo" -> 1
      [] id = "central" -> 2
      [] id = "victoria" -> 3

RECURSIVE SortedLines(_)
\* the ids of the set S in ascending order
SortedLines(S) ==
    IF S = {} THEN << >>
    ELSE LET first == CHOOSE a \in S : \A b \in S : LineRank(a) <= LineRank(b)
         IN  <<first>> \o SortedLines(S \ {first})

\* the ids as they were discovered, neither deduplicated nor sorted
KeepOrder(ids) == ids

\* main.js 913: Array.from(new Set(wanted)).sort()
DedupAndSort(ids) == SortedLines({ids[i] : i \in DOMAIN ids})

\* main.js 587-589: normalizeLineId on the ids a line list can carry
\* (String(id || ''): a missing id is the empty string)
NormalizeLineId(raw) ==
    CASE raw = "Victoria" -> "victoria"
      [] raw = " bakerloo" -> "bakerloo"
      [] OTHER -> raw

RECURSIVE FilterNonEmpty(_)
\* main.js 899: .filter(Boolean)
FilterNonEmpty(ids) ==
    IF ids = << >> THEN << >>
    ELSE (IF Head(ids) = "" THEN << >> ELSE <<Head(ids)>>) \o FilterNonEmpty(Tail(ids))

\* what /Line/Mode/tube can answer: an array of lines (here their ids), or
\* an object that is not an array
TubeLinePayloads ==
    { [from |-> "api", lines |-> <<"Victoria", "", " bakerloo", "victoria">>],
      [from |-> "api", notArray |-> TRUE] }

\* main.js 897-899: the wanted ids of a line-list payload
WantedOfTubeLines(tubeLines) ==
    IF "lines" \in DOMAIN tubeLines
    THEN FilterNonEmpty([i \in DOMAIN tubeLines.lines |-> NormalizeLineId(tubeLines.lines[i])])
    ELSE << >>

\* what a route-sequence request can answer: a well-formed payload, one
\* the line cannot be built from (a null entry among its stop points makes
\* extractBranches throw at sp.id, main.js 734), or one without any stop
\* point sequence (stopPointSequences: [])
RouteLivePayloads ==
    { [from |-> "api", body |-> "v1"], [from |-> "api", body |-> "malformed"],
      [from |-> "api", body |-> "empty"] }

\* main.js 1009-1119: building the line from seq throws
BuildThrows(seq) == "body" \in DOMAIN seq /\ seq.body = "malformed"

\* main.js 1001 and 1006: the options of the first fetch and of the retry
FirstOpts == [ttl |-> DEFAULT_TTL, useCache |-> TRUE, preferCache |-> FALSE,
              allowBundledFallback |-> TRUE]
RetryOpts == [ttl |-> RETRY_TTL, useCache |-> TRUE, preferCache |-> TRUE,
              allowBundledFallback |-> TRUE]

\* the bundled index files: none, an empty one, or one listing the lines
BundledIndexes ==
    { Null, [lines |-> {}], [lines |-> {"victoria"}], [lines |-> {"bakerloo", "victoria"}] }

\* localStorage as an earlier visit may have left it
EarlierCaches ==
    { << >>,
      [u \in {RouteSequenceUrl("victoria")} |-> [t |-> 0, v |-> [from |-> "api", body |-> "v1"]]] }

\* module load: buildNetworkMvp() is about to run (main.js 1189)
InitBuild ==
    /\ now = 0
    /\ localCache \in EarlierCaches
    /\ storageFull = FALSE
    /\ liveOk \in BOOLEAN
    /\ bundledFiles \in {{}, {"victoria"}}
    /\ fjCall = [op |-> "none"]
    /\ bpc = "start"
    /\ bundledIndex \in BundledIndexes
    /\ navigatorOnLine \in BOOLEAN
    /\ wanted = << >>
    /\ lineIdx = 0
    /\ failed = << >>
    /\ loadedCount = 0
    /\ usedCacheFallback = FALSE
    /\ netStatus = [kind |-> "none", text |-> ""]
    /\ attempted = << >>
    /\ lineSeq = << >>

\* the parts that never run the build
InitNoBuild ==
    /\ bpc = "idle"
    /\ bundledIndex = Null
    /\ navigatorOnLine = TRUE
    /\ wanted = << >>
    /\ lineIdx = 0
    /\ failed = << >>
    /\ loadedCount = 0
    /\ usedCacheFallback = FALSE
    /\ netStatus = [kind |-> "none", text |-> ""]
    /\ attempted = << >>
    /\ lineSeq = << >>

\* what the two kinds of live request answer now
TubeLineAnswers == IF liveOk THEN TubeLinePayloads ELSE {Null}
RouteLiveAnswers == IF liveOk THEN RouteLivePayloads ELSE {Null}

\* main.js 892: bundledIndex?.lines
HasIndexLines == "lines" \in DOMAIN bundledIndex

\* main.js 891-913: the wanted ids, r being what fetchTubeLines gave
WantedLines(r) ==
    IF HasIndexLines THEN SortedLines(bundledIndex.lines)
    ELSE LET discovered == IF r.outcome = "throw" THEN << >>
                           ELSE WantedOfTubeLines(r.value)
         IN  IF discovered = << >> THEN DedupAndSort(HardCodedLines)
             ELSE DedupAndSort(discovered)

\* main.js 990: the for-of loop is over, or goes on with the id at i
LoopAt(i, n) == IF i > n THEN "summary" ELSE "fetch"

\* main.js 1122-1126: after the per-line catch the loop takes the next id
AfterCatchAbort(i, n) == n + 1
AfterCatch(i, n) == i + 1

\* main.js 878-979: from the start of buildNetworkMvp to the line loop
BuildStart ==
    /\ bpc = "start"
    /\ \E live \in TubeLineAnswers :
         LET r == FetchJsonResult(TubeLinesUrl, FirstOpts, live)
         IN  /\ wanted' = WantedLines(r)
             /\ localCache' = IF HasIndexLines THEN localCache
                              ELSE FetchJsonCache(TubeLinesUrl, FirstOpts, live)
    /\ failed' = << >>
    /\ loadedCount' = 0
    /\ lineIdx' = 1
    /\ bpc' = LoopAt(1, Len(wanted'))
    /\ netStatus' = [kind |-> "warn", text |-> "Loading TfL tube lines"]
    /\ fjCall' = [op |-> "none"]
    /\ UNCHANGED <<now, storageFull, liveOk, bundledFiles, bundledIndex, navigatorOnLine,
                   usedCacheFallback, attempted, lineSeq, trainVars, registryVars, geoVars, uiVars>>

\* main.js 1009-1125: the rest of the loop body once the fetches have given
\* r for the line id: build it and count it, or catch and record it
FinishLine(id, r) ==
    /\ lineSeq' = [k \in DOMAIN lineSeq \cup {id} |-> IF k = id THEN r ELSE lineSeq[k]]
    \* main.js 750 and 1015: the line's group exists and is made visible
    /\ lineVisible' = IF r.outcome = "throw" \/ BuildThrows(r.value) THEN lineVisible
                      ELSE [k \in DOMAIN lineVisible \cup {id} |->
                               IF k = id THEN TRUE ELSE lineVisible[k]]
    /\ IF r.outcome = "throw" \/ BuildThrows(r.value)
       THEN /\ failed' = Append(failed, id)
            /\ loadedCount' = loadedCount
            /\ lineIdx' = AfterCatch(lineIdx, Len(wanted))
       ELSE /\ failed' = failed
            /\ loadedCount' = loadedCount + 1
            /\ lineIdx' = lineIdx + 1
    /\ bpc' = LoopAt(lineIdx', Len(wanted))

\* main.js 990-1002: the loop body up to the first fetchRouteSequence
FetchLine ==
    /\ bpc = "fetch"
    /\ LET id == wanted[lineIdx]
       IN  \E live \in RouteLiveAnswers :
             LET r == FetchJsonResult(RouteSequenceUrl(id), FirstOpts, live)
             IN  /\ localCache' = FetchJsonCache(RouteSequenceUrl(id), FirstOpts, live)
                 /\ attempted' = Append(attempted, id)
                 /\ IF r.outcome = "throw"
                    THEN /\ usedCacheFallback' = TRUE
                         /\ bpc' = "retry"
                         /\ UNCHANGED <<failed, loadedCount, lineIdx, lineSeq, lineVisible>>
                    ELSE /\ usedCacheFallback' = usedCacheFallback
                         /\ FinishLine(id, r)
    /\ netStatus' = [kind |-> "warn", text |-> "Loading TfL route sequences"]
    /\ fjCall' = [op |-> "none"]
    /\ UNCHANGED <<now, storageFull, liveOk, bundledFiles, bundledIndex, navigatorOnLine,
                   wanted, trainVars, registryVars, geoVars,
                   controlsEnabled, keysHeld, loadTimer, solo, urlFocusLine>>

\* main.js 1002-1007: the retry that prefers the cache, then the loop body
RetryLine ==
    /\ bpc = "retry"
    /\ LET id == wanted[lineIdx]
       IN  \E live \in RouteLiveAnswers :
             /\ localCache' = FetchJsonCache(RouteSequenceUrl(id), RetryOpts, live)
             /\ FinishLine(id, FetchJsonResult(RouteSequenceUrl(id), RetryOpts, live))
    /\ fjCall' = [op |-> "none"]
    /\ UNCHANGED <<now, storageFull, liveOk, bundledFiles, bundledIndex, navigatorOnLine,
                   wanted, usedCacheFallback, netStatus, attempted, trainVars, registryVars, geoVars,
                   controlsEnabled, keysHeld, loadTimer, solo, urlFocusLine>>

\* main.js 1141-1153: the summary status
SummaryStatus ==
    IF Len(failed) # 0 THEN [kind |-> "warn", text |-> "Loaded k/n lines (failed: ...)"]
    ELSE IF ~navigatorOnLine
         THEN [kind |-> "warn", text |-> "Offline mode (using cached TfL data if available)"]
    ELSE IF usedCacheFallback
         THEN [kind |-> "warn", text |-> "TfL unstable - using cached data"]
    ELSE [kind |-> "ok", text |-> "TfL data loaded"]

\* main.js 946-953 with setLineVisible (581-585): the visibility of the
\* groups after applySoloSelection(val); a line without a group is left out
SoloVisibility(val) ==
    [id \in DOMAIN lineVisible |->
        IF id \in {wanted[i] : i \in DOMAIN wanted} THEN (val = "all" \/ id = val)
        ELSE lineVisible[id]]

\* the controls and the line groups at module load (main.js 130, 152, 325)
InitUi ==
    /\ controlsEnabled = FALSE
    /\ keysHeld = FALSE
    /\ loadTimer = "none"
    /\ lineVisible = << >>
    /\ solo = "none"
    /\ urlFocusLine = ""

\* main.js 1128-1165: after the loop
Summary ==
    /\ bpc = "summary"
    /\ netStatus' = SummaryStatus
    /\ bpc' = "done"
    \* 1134-1139: the timeout that enables the controls is set
    /\ loadTimer' = "pending"
    \* 1156-1158: applySoloSelection(focusId) for a focus parameter
    /\ lineVisible' = IF urlFocusLine \in {"", "all"} THEN lineVisible
                      ELSE SoloVisibility(urlFocusLine)
    /\ UNCHANGED <<bundledIndex, navigatorOnLine, wanted, lineIdx, failed, loadedCount,
                   usedCacheFallback, attempted, lineSeq, fetchVars, trainVars, registryVars, geoVars,
                   controlsEnabled, keysHeld, solo, urlFocusLine>>

NextBuild == BuildStart \/ FetchLine \/ RetryLine \/ Summary \/ ClockAdvance \/ LiveToggle

(***************************************************************************)
(* Camera controls and solo selection while the network loads.             *)
(***************************************************************************)

\* the focus parameter of the URL (main.js 325), normalised
UrlFocusLines == {"", "victoria"}

\* module load with a URL that may carry a focus parameter
InitUiLoad ==
    /\ controlsEnabled = FALSE
    /\ keysHeld = FALSE
    /\ loadTimer = "none"
    /\ lineVisible = << >>
    /\ solo = "none"
    /\ urlFocusLine \in UrlFocusLines

\* main.js 1601-1617: an animation frame while no train exists yet
\* (tick runs from module load on, 1685)
TickControls ==
    /\ trains = << >>
    /\ controlsEnabled' = ControlsAfterTick
    /\ UNCHANGED <<trainVars, registryVars, fetchVars, buildVars, geoVars,
                   keysHeld, loadTimer, lineVisible, solo, urlFocusLine>>

\* main.js 155-169: keydown and keyup of a movement key
KeyToggle ==
    /\ keysHeld' = ~keysHeld
    /\ UNCHANGED <<trainVars, registryVars, fetchVars, buildVars, geoVars,
                   controlsEnabled, loadTimer, lineVisible, solo, urlFocusLine>>

\* main.js 935-937, 1349: the solo selector or a shift-click applies a
\* selection; the function is assigned (946) once wanted is known
ApplySoloSelection ==
    /\ bpc \in {"fetch", "retry", "summary", "done"}
    /\ \E val \in {wanted[i] : i \in DOMAIN wanted} \cup {"all"} :
         /\ lineVisible' = SoloVisibility(val)
         /\ solo' = val
    /\ UNCHANGED <<trainVars, registryVars, fetchVars, buildVars, geoVars,
                   controlsEnabled, keysHeld, loadTimer, urlFocusLine>>

\* main.js 1134-1139: the timeout set after the loop fires
LoadTimeout ==
    /\ loadTimer = "pending"
    /\ loadTimer' = "fired"
    /\ controlsEnabled' = TRUE
    /\ UNCHANGED <<trainVars, registryVars, fetchVars, buildVars, geoVars,
                   keysHeld, lineVisible, solo, urlFocusLine>>

NextUi ==
    \/ BuildStart \/ FetchLine \/ RetryLine \/ Summary \/ LiveToggle
    \/ TickControls \/ KeyToggle \/ ApplySoloSelection \/ LoadTimeout

\* C23: the camera controls are locked for the whole initial load: until
\* the post-load timeout has fired, controls.enabled is false in every state.
C23_ControlsLockedWhileLoading ==
    loadTimer # "fired" => ~controlsEnabled

\* C27: once a solo selection of line L has been applied, exactly the group
\* of L is visible in every later state: a line whose build finishes later
\* does not become visible.
C27_SoloStableWhileLoading ==
    solo \notin {"none", "all"} =>
        \A id \in DOMAIN lineVisible : lineVisible[id] = (id = solo)

\* the ids of a sequence
Ids(seq) == {seq[i] : i \in DOMAIN seq}

\* the line's fetches threw, or building from what they gave threw
Failing(r) == r.outcome = "throw" \/ BuildThrows(r.value)

\* C9: every line whose fetch or build throws is in failed exactly once, the
\* lines are attempted in the order of wanted and all of them by the end of
\* the loop, and whether a line is loaded or failed depends on nothing but
\* what its own fetches gave: an earlier failure never stops or fails a
\* later line.
C9_PerLineIsolation ==
    /\ \A i, j \in DOMAIN failed : failed[i] = failed[j] => i = j
    /\ Ids(failed) = {id \in DOMAIN lineSeq : Failing(lineSeq[id])}
    /\ loadedCount = Cardinality({id \in DOMAIN lineSeq : ~Failing(lineSeq[id])})
    /\ Len(attempted) <= Len(wanted)
    /\ attempted = SubSeq(wanted, 1, Len(attempted))
    /\ bpc \in {"summary", "done"} => (attempted = wanted /\ DOMAIN lineSeq = Ids(wanted))

\* the loop is over, an earlier line failed and a later line was loaded
C9_Witness ==
    /\ bpc = "done"
    /\ \E i, j \in DOMAIN wanted :
         /\ i < j
         /\ wanted[i] \in Ids(failed)
         /\ wanted[j] \notin Ids(failed)
         /\ ~Failing(lineSeq[wanted[j]])

\* the ids are strictly ascending, so each distinct id is there once
StrictlyAscending(ids) ==
    \A i, j \in DOMAIN ids : i < j => LineRank(ids[i]) < LineRank(ids[j])

\* the lines whose loop body is over: built, or caught and recorded
Settled == DOMAIN lineSeq

\* C22: buildNetworkMvp attempts the wanted ids strictly one after another
\* in ascending sorted order, each distinct id exactly once: wanted is
\* strictly ascending, the attempts made are a prefix of it, a new attempt
\* starts only when every earlier attempt has completed or has been recorded
\* as failed (at most the line being retried is unsettled), and when the
\* awaited fetches settle the loop always reaches the final status summary.
C22_SequentialSortedLoad ==
    /\ [](/\ StrictlyAscending(wanted)
          /\ attempted = SubSeq(wanted, 1, Len(attempted))
          /\ Settled \subseteq Ids(attempted)
          /\ Ids(attempted) \ Settled \subseteq
                 (IF bpc = "retry" THEN {wanted[lineIdx]} ELSE {})
          /\ Settled = Ids(failed) \cup {id \in Settled : ~Failing(lineSeq[id])})
    /\ [][attempted' # attempted =>
            /\ Settled = Ids(attempted)
            /\ attempted' = Append(attempted, wanted[Len(attempted) + 1])]_vars
    /\ <>(bpc = "done" /\ attempted = wanted /\ Settled = Ids(wanted))

\* the discovered ids came unsorted and with a duplicate, a line was retried
\* and failed, and the loop went on to build a later line and ended
C22_Witness ==
    /\ bpc = "done"
    /\ ~HasIndexLines
    /\ wanted = <<"bakerloo", "victoria">>
    /\ failed = <<"bakerloo">>
    /\ usedCacheFallback
    /\ loadedCount = 1

\* C10: when every line fails because no data source is reachable (every
\* fetch threw), the final status has kind 'err'.
C10_TotalFailureIsErr ==
    (/\ bpc = "done"
     /\ Len(wanted) > 0
     /\ Len(failed) = Len(wanted)
     /\ \A id \in DOMAIN lineSeq : lineSeq[id].outcome = "throw")
    => netStatus.kind = "err"

(***************************************************************************)
(* Route assembly: extractBranches (main.js 712-742).                      *)
(***************************************************************************)
\* A stop point is a record with an id; a null entry of a stopPoint array
\* is Null.  A directional sequence is [direction, stopPoint]; a sequence
\* whose stopPoint is undefined is the record without that field.
Stop(id) == [id |-> id]

\* the stopPoint arrays of the sequences fed to extractBranches
StopLists ==
    { << >>,
      <<Stop("a")>>,
      <<Stop("a"), Stop("b")>>,
      <<Stop("b"), Stop("c"), Stop("a")>>,
      <<Stop("a"), Stop("b"), Stop("a")>>,
      <<Stop("a"), Null>>,
      <<Stop("a"), Stop("b"), Stop("c"), Stop("d"), Stop("e")>>,
      <<Stop("c"), Stop("f"), Stop("d"), Stop("g"), Stop("e"), Stop("h"), Stop("i")>> }

DirectionalSequences ==
    [direction : {"inbound", "outbound"}, stopPoint : StopLists]
        \cup [direction : {"inbound", "outbound"}]

\* Largest number of sequences in one input list.
MaxSequences == 2
SequenceLists == UNION { [1..n -> DirectionalSequences] : n \in 0..MaxSequences }

RECURSIVE FilterInbound(_)
\* main.js 713: sequences.filter(s => s.direction === 'inbound')
FilterInbound(sequences) ==
    IF sequences = << >> THEN << >>
    ELSE (IF Head(sequences).direction = "inbound" THEN <<Head(sequences)>> ELSE << >>)
         \o FilterInbound(Tail(sequences))

\* s.stopPoint?.length > 0 (main.js 716)
HasStops(s) == "stopPoint" \in DOMAIN s /\ Len(s.stopPoint) > 0

RECURSIVE FilterHasStops(_)
\* main.js 716: sequences.filter(s => s.stopPoint?.length > 0)
FilterHasStops(sequences) ==
    IF sequences = << >> THEN << >>
    ELSE (IF HasStops(Head(sequences)) THEN <<Head(sequences)>> ELSE << >>)
         \o FilterHasStops(Tail(sequences))

\* best?.stopPoint?.length || 0
BestLength(best) == IF best = Null THEN 0 ELSE Len(best.stopPoint)

RECURSIVE Longest(_, _)
\* main.js 719-720: all.reduce((best, cur) => longer ? cur : best, null)
Longest(all, best) ==
    IF all = << >> THEN best
    ELSE Longest(Tail(all),
                 IF Len(Head(all).stopPoint) > BestLength(best) THEN Head(all) ELSE best)

\* s.stopPoint || []
StopPointOrEmpty(s) == IF "stopPoint" \in DOMAIN s THEN s.stopPoint ELSE << >>

\* main.js 727: the branch filter
KeepsBranch(arr) == Len(arr) >= 2

RECURSIVE InboundBranches(_)
\* main.js 725-727: inbound.map(s => s.stopPoint || []).filter(arr => arr.length >= 2)
InboundBranches(inbound) ==
    IF inbound = << >> THEN << >>
    ELSE (IF KeepsBranch(StopPointOrEmpty(Head(inbound)))
          THEN <<StopPointOrEmpty(Head(inbound))>> ELSE << >>)
         \o InboundBranches(Tail(inbound))

RECURSIVE Flatten(_)
\* the stops of the branches in the order the nested loops 732-733 visit them
Flatten(branches) ==
    IF branches = << >> THEN << >> ELSE Head(branches) \o Flatten(Tail(branches))

\* main.js 734: the stop is skipped as already seen
SeenBefore(sp, seen) == sp.id \in seen

RECURSIVE DedupStops(_, _)
\* main.js 730-739: deduplicate by id, first occurrence kept
DedupStops(stops, seen) ==
    IF stops = << >> THEN << >>
    ELSE IF SeenBefore(Head(stops), seen) THEN DedupStops(Tail(stops), seen)
    ELSE <<Head(stops)>> \o DedupStops(Tail(stops), seen \cup {Head(stops).id})

\* main.js 734: sp.id of a null entry throws a TypeError
HasNullStop(stops) == \E i \in DOMAIN stops : stops[i] = Null

\* extractBranches(sequences): [branches, allStops], or the TypeError thrown
ExtractBranches(sequences) ==
    LET inbound == FilterInbound(sequences)
    IN  IF Len(inbound) = 0
        THEN LET all == FilterHasStops(sequences)
             IN  IF Len(all) = 0 THEN [branches |-> << >>, allStops |-> << >>]
                 ELSE [branches |-> <<Longest(all, Null).stopPoint>>,
                       allStops |-> Longest(all, Null).stopPoint]
        ELSE LET branches == InboundBranches(inbound)
             IN  IF HasNullStop(Flatten(branches)) THEN [error |-> "TypeError"]
                 ELSE [branches |-> branches,
                       allStops |-> DedupStops(Flatten(branches), {})]

\* route assembly before any call
InitGeo ==
    /\ fnCall = [op |-> "none"]
    /\ centerPoints = {}

\* A call of extractBranches.  The functions of this section are pure: a behaviour is one call, and
\* fnCall records its arguments and its result.
CallExtractBranches ==
    /\ fnCall.op = "none"
    /\ \E sequences \in SequenceLists :
         fnCall' = [op |-> "extractBranches", sequences |-> sequences,
                    result |-> ExtractBranches(sequences)]
    /\ UNCHANGED <<centerPoints, trainVars, registryVars, fetchVars, buildVars, uiVars>>

\* the id of a stop point of a result (a null entry has none)
StopId(sp) == IF "id" \in DOMAIN sp THEN sp.id ELSE "(null)"

\* the sequences of an input list that are tagged inbound
InboundOf(sequences) == {k \in DOMAIN sequences : sequences[k].direction = "inbound"}

\* C11: every branch extractBranches returns has at least 2 entries and no
\* stop id twice, and when some sequence is tagged inbound every branch is
\* the stop list of an inbound sequence.
C11_BranchesDeduplicated ==
    (fnCall.op = "extractBranches" /\ "branches" \in DOMAIN fnCall.result) =>
        LET branches == fnCall.result.branches
            sequences == fnCall.sequences
        IN  /\ \A b \in DOMAIN branches :
                  /\ Len(branches[b]) >= 2
                  /\ \A i, j \in DOMAIN branches[b] :
                        i # j => StopId(branches[b][i]) # StopId(branches[b][j])
            /\ InboundOf(sequences) # {} =>
                  \A b \in DOMAIN branches :
                      \E k \in InboundOf(sequences) :
                          StopPointOrEmpty(sequences[k]) = branches[b]

RECURSIVE FirstOccurrences(_, _)
\* the stops of flat from position i on whose id does not occur before them
FirstOccurrences(flat, i) ==
    IF i > Len(flat) THEN << >>
    ELSE (IF \E j \in 1..(i - 1) : StopId(flat[j]) = StopId(flat[i])
          THEN << >> ELSE <<flat[i]>>)
         \o FirstOccurrences(flat, i + 1)

\* C12: allStops holds each stop id at most once, holds exactly the ids of
\* the returned branches, and is ordered by first occurrence across the
\* branches.
C12_AllStopsDeduplicated ==
    (fnCall.op = "extractBranches" /\ "allStops" \in DOMAIN fnCall.result) =>
        LET allStops == fnCall.result.allStops
            flat == Flatten(fnCall.result.branches)
        IN  /\ \A i, j \in DOMAIN allStops :
                  i # j => StopId(allStops[i]) # StopId(allStops[j])
            /\ {StopId(allStops[i]) : i \in DOMAIN allStops}
                  = {StopId(flat[i]) : i \in DOMAIN flat}
            /\ allStops = FirstOccurrences(flat, 1)

RECURSIVE QualifyingStopLists(_)
\* the stop lists of the sequences that qualify as a branch (2 stops or more)
QualifyingStopLists(sequences) ==
    IF sequences = << >> THEN << >>
    ELSE (IF Len(StopPointOrEmpty(Head(sequences))) >= 2
          THEN <<StopPointOrEmpty(Head(sequences))>> ELSE << >>)
         \o QualifyingStopLists(Tail(sequences))

\* the largest number of stops of a sequence of the list
MostStops(sequences) ==
    IF sequences = << >> THEN 0
    ELSE CHOOSE n \in 0..7 :
            /\ \E k \in DOMAIN sequences : Len(StopPointOrEmpty(sequences[k])) = n
            /\ \A k \in DOMAIN sequences : Len(StopPointOrEmpty(sequences[k])) <= n

\* C13: extractBranches never throws; with no inbound sequence it returns
\* all the sequences that qualify as branches, and only when none qualifies
\* the single longest sequence; its result is empty only when no sequence
\* has any stops.
C13_FallbackPolicy ==
    fnCall.op = "extractBranches" =>
        LET sequences == fnCall.sequences
            r == fnCall.result
        IN  /\ "error" \notin DOMAIN r
            /\ InboundOf(sequences) = {} =>
                  IF QualifyingStopLists(sequences) # << >>
                  THEN r.branches = QualifyingStopLists(sequences)
                  ELSE IF MostStops(sequences) > 0
                       THEN Len(r.branches) = 1
                            /\ Len(r.branches[1]) = MostStops(sequences)
                  ELSE r.branches = << >>
            /\ r.branches = << >> => MostStops(sequences) = 0

(***************************************************************************)
(* Depth resolution: depthForStation (depth.js 59-63) and the depth used   *)
(* for each station of a branch (main.js 761-772).                         *)
(* A depth is a rational [num, den] of metres below ground; a value that   *)
(* is no number at all is [function |-> key].                              *)
(***************************************************************************)
Finite(n) == [num |-> n, den |-> 1]

\* depth.js 9-24
LINE_DEPTH_M ==
    ("circle" :> 8) @@ ("district" :> 10) @@ ("metropolitan" :> 10)
    @@ ("hammersmith-city" :> 9) @@ ("bakerloo" :> 25) @@ ("central" :> 28)
    @@ ("jubilee" :> 32) @@ ("northern" :> 30) @@ ("piccadilly" :> 30)
    @@ ("victoria" :> 33) @@ ("waterloo-city" :> 35)

\* LINE_DEPTH_M is an object literal: the properties it inherits from
\* Object.prototype
ObjectPrototypeKeys ==
    {"constructor", "toString", "valueOf", "hasOwnProperty", "__proto__"}

\* depth.js 61: lineId in LINE_DEPTH_M (own and inherited properties)
InLineDepths(lineId) == lineId \in DOMAIN LINE_DEPTH_M \cup ObjectPrototypeKeys

\* depth.js 61: LINE_DEPTH_M[lineId]
LineDepthLookup(lineId) ==
    IF lineId \in DOMAIN LINE_DEPTH_M THEN Finite(LINE_DEPTH_M[lineId])
    ELSE [function |-> lineId]

\* station ids handed to the depth functions; "" is a missing or empty id
StationIds == {"a", "b", "c", "d"}

\* line ids handed to the depth functions; "" is a missing or empty id
DepthLineIds == {"", "victoria", "circle", "dlr", "constructor"}

\* anchor tables as loadStationDepthAnchors builds them (a Map from
\* non-empty ids to finite depths, depth.js 44-53), or null
AnchorDepths == {10, 30}
AnchorTables ==
    {Null} \cup { [map |-> f] :
                    f \in UNION { [S -> AnchorDepths] : S \in SUBSET StationIds } }

\* depth.js 60: anchors && naptanId && anchors.has(naptanId)
HasAnchor(naptanId, anchors) ==
    anchors # Null /\ naptanId # "" /\ naptanId \in DOMAIN anchors.map

\* depth.js 59-63
DepthForStation(naptanId, lineId, anchors) ==
    IF HasAnchor(naptanId, anchors) THEN Finite(anchors.map[naptanId])
    ELSE IF lineId # "" /\ InLineDepths(lineId) THEN LineDepthLookup(lineId)
    ELSE Finite(18)

CallDepthForStation ==
    /\ fnCall.op = "none"
    /\ \E naptanId \in StationIds \cup {""}, lineId \in DepthLineIds, anchors \in AnchorTables :
        /\ fnCall' = [op |-> "depthForStation", naptanId |-> naptanId,
                      lineId |-> lineId, anchors |-> anchors,
                      result |-> DepthForStation(naptanId, lineId, anchors)]
        /\ UNCHANGED <<centerPoints, trainVars, registryVars, fetchVars, buildVars, uiVars>>

\* C14: depthForStation returns the anchor value of an anchored station,
\* the line's heuristic depth for an un-anchored station on a line that has
\* one, and 18 when there is neither.
C14_DepthFallbackChain ==
    fnCall.op = "depthForStation" =>
        LET id == fnCall.naptanId
            anchored == fnCall.anchors # Null /\ id \in DOMAIN fnCall.anchors.map
        IN  fnCall.result =
                IF anchored THEN Finite(fnCall.anchors.map[id])
                ELSE IF fnCall.lineId \in DOMAIN LINE_DEPTH_M
                     THEN Finite(LINE_DEPTH_M[fnCall.lineId])
                ELSE Finite(18)

\* C15: the depth depthForStation returns, and the depth used for every
\* stop of a branch, is a finite number, for every station id, every line
\* id and every anchor table, null included.
C15_DepthAlwaysFinite ==
    /\ fnCall.op = "depthForStation" =>
           "num" \in DOMAIN fnCall.result /\ fnCall.result.den # 0
    /\ fnCall.op = "branchDepths" =>
           \A i \in DOMAIN fnCall.result :
               "num" \in DOMAIN fnCall.result[i] /\ fnCall.result[i].den # 0

\* A stop point of a branch with its cumulative station-to-station path
\* length from the first stop of the branch.
StopAt(id, pos) == [id |-> id, pos |-> pos]

\* the branches whose depths are resolved (main.js 758-759: 2 valid stop
\* points or more)
DepthBranches ==
    { <<StopAt("a", 0), StopAt("b", 10), StopAt("c", 40)>>,
      <<StopAt("a", 0), StopAt("b", 20), StopAt("c", 40)>>,
      <<StopAt("a", 0), StopAt("b", 0), StopAt("c", 40)>>,
      <<StopAt("a", 0), StopAt("b", 10), StopAt("c", 40), StopAt("d", 50)>> }

\* the stops of a branch that have an anchor
AnchoredAt(branch, anchors) ==
    IF anchors = Null THEN {}
    ELSE {j \in DOMAIN branch : branch[j].id \in DOMAIN anchors.map}

\* linear interpolation by path length between the anchored stops j and k
\* of a branch, at stop i
Lerp(branch, anchors, j, i, k) ==
    LET p1 == branch[j].pos
        p2 == branch[k].pos
        d1 == anchors.map[branch[j].id]
        d2 == anchors.map[branch[k].id]
    IN  IF p2 = p1 THEN Finite(d1)
        ELSE [num |-> d1 * (p2 - p1) + (d2 - d1) * (branch[i].pos - p1),
              den |-> p2 - p1]

\* interpolateDepth(sp.id) of buildDepthInterpolator(validStopPoints, anchors)
\* for the stop i of the branch: null unless the branch has two anchors; the
\* anchor of an anchored stop; the nearest anchor before the first and after
\* the last anchor; the interpolation between the two nearest anchors
InterpolateDepth(branch, anchors, i) ==
    LET anchored == AnchoredAt(branch, anchors)
        before == {j \in anchored : j < i}
        after == {k \in anchored : k > i}
        prev == CHOOSE j \in before : \A m \in before : m <= j
        next == CHOOSE k \in after : \A m \in after : k <= m
    IN  IF Cardinality(anchored) < 2 THEN Null
        ELSE IF i \in anchored THEN Finite(anchors.map[branch[i].id])
        ELSE IF before = {} THEN Finite(anchors.map[branch[next].id])
        ELSE IF after = {} THEN Finite(anchors.map[branch[prev].id])
        ELSE Lerp(branch, anchors, prev, i, next)

\* the stop's depth is the line's fallback depth, whatever the interpolator says
DepthUsedFallbackOnly(branch, lineId, anchors, i) ==
    DepthForStation(branch[i].id, lineId, anchors)

\* main.js 767-770: depthM of the stop i of a branch
DepthUsed(branch, lineId, anchors, i) ==
    LET depthM == InterpolateDepth(branch, anchors, i)
    IN  IF depthM = Null THEN DepthForStation(branch[i].id, lineId, anchors)
        ELSE depthM

\* main.js 761-772: the depths of the stops of one branch of a line
CallBranchDepths ==
    /\ fnCall.op = "none"
    /\ \E branch \in DepthBranches, lineId \in DepthLineIds, anchors \in AnchorTables :
        /\ fnCall' = [op |-> "branchDepths", branch |-> branch,
                      lineId |-> lineId, anchors |-> anchors,
                      result |-> [i \in DOMAIN branch |->
                                     DepthUsed(branch, lineId, anchors, i)]]
        /\ UNCHANGED <<centerPoints, trainVars, registryVars, fetchVars, buildVars, uiVars>>

\* the anchored stops j < k of the last branch call have no anchor between them
NearestAnchors(j, k) ==
    LET anchored == AnchoredAt(fnCall.branch, fnCall.anchors)
    IN  /\ j \in anchored /\ k \in anchored /\ j < k
        /\ \A m \in anchored : ~(j < m /\ m < k)

MaxPoints == 4
CenterLines == UNION { [1..n -> {0, 5, 10, 20}] : n \in 0..MaxPoints }

\* Vector3.distanceTo for two points of the axis
DistanceTo(a, b) == IF a >= b THEN a - b ELSE b - a

RECURSIVE CumAt(_, _)
\* main.js 698-704: cum[i], the running total after the point i (1-based)
CumAt(centerPts, i) ==
    IF i <= 1 THEN 0
    ELSE CumAt(centerPts, i - 1) + DistanceTo(centerPts[i], centerPts[i - 1])

\* u is the rank of the point among the points, whatever the distances
StationFractionsByRank(centerPts) ==
    [i \in DOMAIN centerPts |->
        IF Len(centerPts) <= 1 THEN Finite(0)
        ELSE [num |-> i - 1, den |-> Len(centerPts) - 1]]

\* main.js 697-708: stationUsFromPolyline(centerPts)
StationFractions(centerPts) ==
    LET total == CumAt(centerPts, Len(centerPts))
    IN  IF total <= 0 THEN [i \in DOMAIN centerPts |-> Finite(0)]
        ELSE [i \in DOMAIN centerPts |-> [num |-> CumAt(centerPts, i), den |-> total]]

\* a - b of the comparator of main.js 777 is negative
LessU(a, b) == a.num * b.den < b.num * a.den

RECURSIVE InsertU(_, _)
InsertU(u, sorted) ==
    IF sorted = << >> THEN <<u>>
    ELSE IF LessU(u, Head(sorted)) THEN <<u>> \o sorted
    ELSE <<Head(sorted)>> \o InsertU(u, Tail(sorted))

RECURSIVE SortUs(_)
\* main.js 777: .sort((a, b) => a - b), a stable ascending sort
SortUs(us) ==
    IF us = << >> THEN << >>
    ELSE InsertU(us[Len(us)], SortUs(SubSeq(us, 1, Len(us) - 1)))

\* main.js 777: stationUs of a branch, with what stationUsFromPolyline returned
CallStationUs ==
    /\ fnCall.op = "none"
    /\ \E centerPts \in CenterLines :
         fnCall' = [op |-> "stationUsFromPolyline", centerPts |-> centerPts,
                    result |-> StationFractions(centerPts),
                    stationUs |-> SortUs(StationFractions(centerPts))]
    /\ UNCHANGED <<centerPoints, trainVars, registryVars, fetchVars, buildVars, uiVars>>

\* the total length of the polyline of the last call
TotalLength == CumAt(fnCall.centerPts, Len(fnCall.centerPts))

\* the points of the last call are equally spaced along the path
EquallySpaced ==
    \A i, j \in 2..Len(fnCall.centerPts) :
        DistanceTo(fnCall.centerPts[i], fnCall.centerPts[i - 1])
            = DistanceTo(fnCall.centerPts[j], fnCall.centerPts[j - 1])

\* C17: for a polyline of N >= 2 points and non-zero length,
\* stationUsFromPolyline returns N values, the first 0, the last 1,
\* non-decreasing, each the cumulative distance over the total length, and
\* u[i] = i/(N-1) when the points are equally spaced; the sort of main.js
\* 777 leaves them as they are.
C17_ArcLengthParameterization ==
    (fnCall.op = "stationUsFromPolyline" /\ Len(fnCall.centerPts) >= 2
     /\ TotalLength > 0) =>
        LET u == fnCall.result
            N == Len(fnCall.centerPts)
        IN  /\ DOMAIN u = 1..N
            /\ \A i \in 1..N : u[i].den > 0
            /\ u[1].num = 0
            /\ u[N].num = u[N].den
            /\ \A i \in 1..(N - 1) : ~LessU(u[i + 1], u[i])
            /\ \A i \in 1..N :
                  u[i].num * TotalLength = CumAt(fnCall.centerPts, i) * u[i].den
            /\ EquallySpaced =>
                  \A i \in 1..N : u[i].num * (N - 1) = (i - 1) * u[i].den
            /\ fnCall.stationUs = u

\* unevenly spaced points, the second a quarter of the way along the path
C17_Witness ==
    /\ fnCall.op = "stationUsFromPolyline"
    /\ fnCall.centerPts = <<0, 5, 20>>
    /\ fnCall.result[2].num * 4 = fnCall.result[2].den
    /\ fnCall.result[3].num = fnCall.result[3].den

(***************************************************************************)
(* The step of a cruising train (main.js 1627-1632), computed exactly: u   *)
(* is a rational [num, den]; a division by zero gives [nonFinite |-> TRUE] *)
(* (Infinity or NaN).                                                      *)
(***************************************************************************)
NonFinite == [nonFinite |-> TRUE]

\* the divisor is the curve length itself
DivisorUnguarded(curveLength) == [num |-> curveLength, den |-> 1]

\* main.js 1627: Math.max(1e-6, train.userData.curveLengthM), the length
\* being a whole number of metres
Divisor(curveLength) ==
    IF curveLength >= 1 THEN [num |-> curveLength, den |-> 1]
    ELSE [num |-> 1, den |-> 1000000]

\* main.js 1627: du = (cruiseMps * simDt) / divisor
DuExact(sdt, curveLength) ==
    LET divisor == Divisor(curveLength)
    IN  IF divisor.num = 0 THEN NonFinite
        ELSE [num |-> cruiseMps * sdt * divisor.den, den |-> divisor.num]

\* main.js 1631-1632: the wrap of u
WrapExact(u) ==
    IF "nonFinite" \in DOMAIN u THEN u
    ELSE LET u1 == IF u.num >= u.den THEN [num |-> u.num - u.den, den |-> u.den] ELSE u
         IN  IF u1.num < 0 THEN [num |-> u1.num + u1.den, den |-> u1.den] ELSE u1

\* main.js 1627-1632: u of a train at t = halves/2 after one cruising step
StepU(halves, dir, sdt, curveLength) ==
    LET du == DuExact(sdt, curveLength)
    IN  IF "nonFinite" \in DOMAIN du THEN NonFinite
        ELSE WrapExact([num |-> halves * du.den + dir * du.num * 2,
                        den |-> 2 * du.den])

CallStepU ==
    /\ fnCall.op = "none"
    /\ \E halves \in {0, 1}, dir \in {1, 0 - 1}, sdt \in {0 - 8, 0, 1, 8, 24},
          curveLength \in {0, 240} :
         fnCall' = [op |-> "stepU", halves |-> halves, dir |-> dir,
                    simDt |-> sdt, curveLengthM |-> curveLength,
                    result |-> StepU(halves, dir, sdt, curveLength)]
    /\ UNCHANGED <<centerPoints, trainVars, registryVars, fetchVars, buildVars, uiVars>>

\* C18: for a branch whose points all coincide stationUsFromPolyline maps
\* every station to u = 0, dividing by nothing, and the step of a train on
\* a curve of length zero gives a finite u.
C18_DegenerateGeometry ==
    /\ (fnCall.op = "stationUsFromPolyline" /\ TotalLength = 0) =>
           /\ DOMAIN fnCall.result = DOMAIN fnCall.centerPts
           /\ \A i \in DOMAIN fnCall.result :
                 fnCall.result[i].num = 0 /\ fnCall.result[i].den # 0
           /\ fnCall.stationUs = fnCall.result
    /\ (fnCall.op = "stepU" /\ fnCall.curveLengthM = 0) =>
           "num" \in DOMAIN fnCall.result /\ fnCall.result.den # 0

\* a train on a curve of length zero steps by a positive simulated delta
C18_Witness ==
    /\ fnCall.op = "stepU" /\ fnCall.curveLengthM = 0 /\ fnCall.simDt > 0
    /\ fnCall.dir = 1 /\ fnCall.result.num > fnCall.result.den

\* three coincident points get three zeros
C18_WitnessCoincident ==
    /\ fnCall.op = "stationUsFromPolyline"
    /\ fnCall.centerPts = <<5, 5, 5>>
    /\ fnCall.result = <<Finite(0), Finite(0), Finite(0)>>

(***************************************************************************)
(* Twin-tunnel offsets: buildOffsetCurvesFromCenterline (main.js 669-695). *)
(* A point is [x, y, z] in whole metres.  A horizontal direction is        *)
(* [x, z, lenSq], the vector (x, z) / sqrt(lenSq); an offset point is      *)
(* [x, y, z, ox, oz, lenSq], the point (x + ox/sqrt(lenSq), y,             *)
(* z + oz/sqrt(lenSq)).                                                    *)
(***************************************************************************)
Vector3(x, y, z) == [x |-> x, y |-> y, z |-> z]

\* the centerline points: two depths, and two points above one another
OffsetPoints ==
    { Vector3(0, 0 - 10, 0), Vector3(0, 0 - 30, 0),
      Vector3(3, 0 - 30, 4), Vector3(6, 0 - 10, 8) }

\* Largest number of points of a centerline that gets offset curves.
MaxOffsetPoints == 3
\* main.js 758-759: a branch has 2 valid stop points or more
OffsetLines == UNION { [1..n -> OffsetPoints] : n \in 2..MaxOffsetPoints }

\* main.js 680-682: subVectors(pNext, pPrev), y = 0, normalize(); three.js
\* leaves a vector of length 0 as it is
Tangent(pPrev, pNext) ==
    LET tx == pNext.x - pPrev.x
        tz == pNext.z - pPrev.z
    IN  IF tx * tx + tz * tz = 0 THEN [x |-> 0, z |-> 0, lenSq |-> 1]
        ELSE [x |-> tx, z |-> tz, lenSq |-> tx * tx + tz * tz]

\* main.js 685: (x, z) -> (-z, x), normalized (a unit or zero vector already)
Normal(tangent) == [x |-> 0 - tangent.z, z |-> tangent.x, lenSq |-> tangent.lenSq]

\* main.js 687-688: copy(p).addScaledVector(normal, scale)
AddScaledVector(p, normal, scale) ==
    [x |-> p.x, y |-> p.y, z |-> p.z,
     ox |-> normal.x * scale, oz |-> normal.z * scale, lenSq |-> normal.lenSq]

Max(a, b) == IF a >= b THEN a ELSE b
Min(a, b) == IF a <= b THEN a ELSE b

\* main.js 675-688: the normal at the point i (1-based) of the centerline
NormalAt(centerPts, i) ==
    Normal(Tangent(centerPts[Max(1, i - 1)], centerPts[Min(Len(centerPts), i + 1)]))

\* main.js 669-695: the points the left and right curves are fitted through
BuildOffsetCurvesFromCenterline(centerPts, halfSpacing) ==
    [left |-> [i \in DOMAIN centerPts |->
                  AddScaledVector(centerPts[i], NormalAt(centerPts, i), halfSpacing)],
     right |-> [i \in DOMAIN centerPts |->
                  AddScaledVector(centerPts[i], NormalAt(centerPts, i), 0 - halfSpacing)]]

\* main.js 778: the call, with twinTunnelsEnabled ? tunnelOffsetM : 0
CallBuildOffsetCurves ==
    /\ fnCall.op = "none"
    /\ \E centerPts \in OffsetLines, halfSpacing \in {0, 6} :
         fnCall' = [op |-> "buildOffsetCurvesFromCenterline",
                    centerPts |-> centerPts, halfSpacing |-> halfSpacing,
                    result |-> BuildOffsetCurvesFromCenterline(centerPts, halfSpacing)]
    /\ UNCHANGED <<centerPoints, trainVars, registryVars, fetchVars, buildVars, uiVars>>

\* C19: at every point of the centerline the left and the right offset
\* point are at horizontal distance exactly s from it, on opposite sides,
\* 2s apart, and at the depth of the centerline point.
C19_OffsetSymmetry ==
    fnCall.op = "buildOffsetCurvesFromCenterline" =>
        \A i \in DOMAIN fnCall.centerPts :
            LET p == fnCall.centerPts[i]
                l == fnCall.result.left[i]
                r == fnCall.result.right[i]
                s == fnCall.halfSpacing
            IN  /\ l.y = p.y /\ r.y = p.y
                /\ l.x = p.x /\ l.z = p.z /\ r.x = p.x /\ r.z = p.z
                /\ l.lenSq = r.lenSq /\ l.lenSq > 0
                /\ l.ox * l.ox + l.oz * l.oz = s * s * l.lenSq
                /\ r.ox * r.ox + r.oz * r.oz = s * s * r.lenSq
                /\ r.ox = 0 - l.ox /\ r.oz = 0 - l.oz

(***************************************************************************)
(* Line builds: the per-stop loop of addLineFromStopPoints (main.js        *)
(* 757-773) over the shared station registry (636-653).                    *)
(***************************************************************************)
\* sim.verticalScale (main.js 332)
verticalScale == 3

\* a stop point of route data: a raw id and the coordinates supplied for it
RouteStop(id, c) == [id |-> id, lat |-> c[1], lon |-> c[2]]

\* the branch lists of the lines that get built: stations shared between
\* branches and lines, with equal and with different coordinates, an id with
\* surrounding blanks, stops without a latitude or a longitude, a line
\* without branches and a stop without an id
LineBranches ==
    { << <<RouteStop(<<"a">>, <<515074, -1278>>), RouteStop(<<"b">>, <<515174, -1378>>)>> >>,
      << <<RouteStop(<<"b">>, <<515174, -1378>>), RouteStop(<<"a">>, <<515074, -1378>>)>> >>,
      << <<RouteStop(<<"a">>, <<515174, -1378>>), RouteStop(<<"b">>, <<515074, -1278>>)>>,
         <<RouteStop(<<" ", "a">>, <<515074, -1378>>), RouteStop(<<"b">>, <<515074, -1378>>)>> >>,
      << <<RouteStop(<<"b">>, <<515074, -1378>>), [id |-> <<"a">>, lon |-> -1278]>>,
         <<RouteStop(<<"a", " ">>, <<515074, -1278>>), [id |-> <<"c">>, lat |-> 515074],
           RouteStop(<<"b">>, <<515174, -1378>>)>> >>,
      << >>,
      << <<RouteStop(<<"b">>, <<515074, -1278>>), RouteStop(None, <<515174, -1378>>),
           RouteStop(<<"a">>, <<515174, -1378>>)>> >> }

\* the lookup finds no entry
HasEntryInNever(map, key) == FALSE

\* main.js 641: sharedStationPositions.has(key), the map being a parameter
HasEntryIn(map, key) == key \in DOMAIN map

\* main.js 639-647: the map after registerStationPosition(id, lat, lon)
RegisterStoreIn(map, id, lat, lon) ==
    IF id = None \/ HasEntryIn(map, Trim(id)) THEN map
    ELSE [k \in DOMAIN map \cup {Trim(id)} |->
            IF k = Trim(id) THEN NewEntry(lat, lon) ELSE map[k]]

\* main.js 650-653: getStationPosition(id) on the map
GetStationPositionIn(map, id) ==
    IF id = None THEN Null
    ELSE IF Trim(id) \in DOMAIN map THEN map[Trim(id)] ELSE Undefined

\* history: first with the arguments of a registration of a new key added
FirstRegistered(first, map, sp) ==
    IF sp.id = None \/ Trim(sp.id) \in DOMAIN map THEN first
    ELSE [k \in DOMAIN first \cup {Trim(sp.id)} |->
            IF k = Trim(sp.id)
            THEN [lat |-> sp.lat, lon |-> sp.lon, hs |-> horizontalScale]
            ELSE first[k]]

\* main.js 758 and 1022: Number.isFinite(sp.lat) && Number.isFinite(sp.lon);
\* a stop whose latitude or longitude is missing is the record without it
FiniteLatLon(sp) == "lat" \in DOMAIN sp /\ "lon" \in DOMAIN sp

RECURSIVE ValidStopPoints(_)
\* main.js 758: branchStops.filter(...)
ValidStopPoints(stops) ==
    IF stops = << >> THEN << >>
    ELSE (IF FiniteLatLon(Head(stops)) THEN <<Head(stops)>> ELSE << >>)
         \o ValidStopPoints(Tail(stops))

RECURSIVE BuildBranch(_, _, _, _)
\* main.js 764-773: the loop over the valid stops of a branch from the stop
\* i on.  st is [map, first, pts, cpts, built, threw]: the registry, its
\* history, the center points of the line so far, centerPts of this branch,
\* the centerPts of the branches before it (empty for a skipped one), and
\* whether pos.x has thrown a TypeError.
BuildBranch(st, branchStops, lineId, i) ==
    IF st.threw \/ i > Len(branchStops) THEN st
    ELSE LET sp == branchStops[i]
             map == RegisterStoreIn(st.map, sp.id, sp.lat, sp.lon)
             pos == GetStationPositionIn(map, sp.id)
             depthM == DepthUsed(branchStops, lineId, Null, i)
             y == 0 - depthM.num * verticalScale
             pt == [line |-> lineId, key |-> Trim(sp.id),
                    lat |-> sp.lat, lon |-> sp.lon,
                    x |-> pos.x, y |-> y, z |-> pos.z]
         IN  IF "x" \notin DOMAIN pos
             THEN [st EXCEPT !.map = map, !.threw = TRUE]
             ELSE BuildBranch(
                      [st EXCEPT !.map = map,
                                 !.first = FirstRegistered(st.first, st.map, sp),
                                 !.pts = @ \cup {pt},
                                 !.cpts = Append(@, pt)],
                      branchStops, lineId, i + 1)

RECURSIVE BuildBranches(_, _, _)
\* main.js 757-759: the loop over the branches; a branch of fewer than 2
\* valid stops is skipped
BuildBranches(st, branchArrays, lineId) ==
    IF st.threw \/ branchArrays = << >> THEN st
    ELSE LET validStopPoints == ValidStopPoints(Head(branchArrays))
             r == BuildBranch([st EXCEPT !.cpts = << >>], validStopPoints, lineId, 1)
         IN  BuildBranches(
                 IF Len(validStopPoints) < 2 THEN [st EXCEPT !.built = Append(@, << >>)]
                 ELSE IF r.threw THEN r
                 ELSE [r EXCEPT !.built = Append(@, r.cpts)],
                 Tail(branchArrays), lineId)

\* main.js 746: branches && branches.length > 0 ? branches : [stopPoints],
\* stopPoints being the allStops of extractBranches (main.js 1010-1014)
BranchArrays(branches) ==
    IF Len(branches) > 0 THEN branches ELSE <<DedupStops(Flatten(branches), {})>>

RECURSIVE StationMarkers(_)
\* main.js 1021-1031: the markers of the valid stops of sps, each at
\* llToXZ of the coordinates the line supplies
StationMarkers(sps) ==
    IF sps = << >> THEN << >>
    ELSE (IF FiniteLatLon(Head(sps))
          THEN <<[id |-> Head(sps).id,
                  x |-> LlToXZ(Head(sps).lat, Head(sps).lon, horizontalScale).x,
                  z |-> LlToXZ(Head(sps).lat, Head(sps).lon, horizontalScale).z]>>
          ELSE << >>)
         \o StationMarkers(Tail(sps))

\* main.js 1012-1031: addLineFromStopPoints(id, ..., sps, ..., {branches})
\* and the station markers of the line, which are not reached when the call
\* throws.  The registry keeps what was registered before a throw.
AddLineFromStopPoints ==
    \E lineId \in {"victoria", "circle"}, branches \in LineBranches :
        LET st == BuildBranches([map |-> sharedStationPositions, first |-> firstReg,
                                 pts |-> {}, cpts |-> << >>, built |-> << >>,
                                 threw |-> FALSE],
                                BranchArrays(branches), lineId)
        IN  /\ sharedStationPositions' = st.map
            /\ firstReg' = st.first
            /\ centerPoints' = IF st.threw THEN centerPoints
                               ELSE centerPoints \cup st.pts
            /\ fnCall' = [op |-> "addLineFromStopPoints", lineId |-> lineId,
                          branchArrays |-> BranchArrays(branches),
                          threw |-> st.threw, built |-> st.built,
                          markers |-> IF st.threw THEN << >>
                                      ELSE StationMarkers(DedupStops(Flatten(branches), {}))]
            /\ UNCHANGED <<horizontalScale, regCall, trainVars, fetchVars, buildVars, uiVars>>

\* seq.stopPointSequences (main.js 1008) of the payloads of the build
StopPointSequencesOf(seq) ==
    CASE seq.body = "empty" -> << >>
      [] seq.body = "malformed" ->
            <<[direction |-> "inbound",
               stopPoint |-> <<RouteStop(<<"a">>, <<515074, -1278>>), Null>>]>>
      [] OTHER ->
            <<[direction |-> "inbound",
               stopPoint |-> <<RouteStop(<<"a">>, <<515074, -1278>>),
                               RouteStop(<<"b">>, <<515174, -1378>>)>>]>>

\* main.js 1008-1014 and 757-811: the number of branches of the line id for
\* which addLineFromStopPoints builds a tunnel pair and two trains
BuiltBranchCount(id, seq) ==
    LET e == ExtractBranches(StopPointSequencesOf(seq))
        st == BuildBranches([map |-> sharedStationPositions, first |-> firstReg,
                             pts |-> {}, cpts |-> << >>, built |-> << >>,
                             threw |-> FALSE],
                            BranchArrays(e.branches), id)
    IN  IF "error" \in DOMAIN e THEN 0
        ELSE Cardinality({i \in DOMAIN st.built : st.built[i] # << >>})

\* C30: at the end of the loop loadedCount + failed.length is the number of
\* wanted lines, and the lines counted as loaded are exactly the settled
\* lines with at least one built branch: a line with no buildable branch is
\* never counted as loaded.
C30_LoadedCountAccounting ==
    /\ bpc \in {"summary", "done"} => loadedCount + Len(failed) = Len(wanted)
    /\ loadedCount =
          Cardinality({id \in Settled :
                          /\ ~Failing(lineSeq[id])
                          /\ BuiltBranchCount(id, lineSeq[id].value) >= 1})

\* the abstraction of the payloads agrees with the route assembly: building
\* throws exactly for the payload extractBranches throws on
PayloadsAgree ==
    \A seq \in RouteLivePayloads :
        BuildThrows(seq) <=> "error" \in DOMAIN ExtractBranches(StopPointSequencesOf(seq))

\* C21: addLineFromStopPoints does not throw; a branch with 2 or more stops
\* of finite latitude and longitude is built from exactly those stops, in
\* order, whatever the other branches of the line hold, and a branch with
\* fewer is skipped.
C21_MalformedStopsDegrade ==
    fnCall.op = "addLineFromStopPoints" =>
        /\ ~fnCall.threw
        /\ DOMAIN fnCall.built = DOMAIN fnCall.branchArrays
        /\ \A b \in DOMAIN fnCall.branchArrays :
              LET valid == ValidStopPoints(fnCall.branchArrays[b])
              IN  IF Len(valid) >= 2
                  THEN /\ Len(fnCall.built[b]) = Len(valid)
                       /\ \A i \in DOMAIN valid :
                             fnCall.built[b][i].key = Trim(valid[i].id)
                  ELSE fnCall.built[b] = << >>

\* C29: the marker of a station created for a line is at the (x, z) of the
\* center point the same build gave that station on the line's tunnels.
C29_MarkersOnTunnels ==
    fnCall.op = "addLineFromStopPoints" =>
        \A m \in DOMAIN fnCall.markers, b \in DOMAIN fnCall.built :
            \A i \in DOMAIN fnCall.built[b] :
                fnCall.built[b][i].key = Trim(fnCall.markers[m].id) =>
                    /\ fnCall.markers[m].x = fnCall.built[b][i].x
                    /\ fnCall.markers[m].z = fnCall.built[b][i].z

NextLines == AddLineFromStopPoints \/ SetHorizontalScale

\* C20: every center point built for a station id, on any line and any
\* branch, is at the (x, z) of the first registration of that id (ids
\* compared after trimming), so two center points of one station have the
\* same (x, z), whatever coordinates the later lines supplied.
C20_SharedStationPositions ==
    /\ \A p \in centerPoints :
          /\ p.key \in DOMAIN firstReg
          /\ p.x = FirstPosition(p.key).x /\ p.z = FirstPosition(p.key).z
    /\ \A p, q \in centerPoints : p.key = q.key => p.x = q.x /\ p.z = q.z

\* two lines have built a center point for the same station from different
\* coordinates: the points share (x, z) and differ in depth
C20_Witness ==
    \E p, q \in centerPoints :
        /\ p.key = q.key /\ p.line # q.line
        /\ <<p.lat, p.lon>> # <<q.lat, q.lon>>
        /\ p.x = q.x /\ p.z = q.z /\ p.y # q.y
        /\ LlToXZ(q.lat, q.lon, horizontalScale).x # q.x

NextAssembly == CallExtractBranches \/ CallDepthForStation \/ CallBranchDepths
    \/ CallStationUs \/ CallStepU \/ CallBuildOffsetCurves

(***************************************************************************)
(* Specifications.                                                         *)
(***************************************************************************)
\* the fetch helpers before any call
InitNoFetch ==
    /\ now = 0
    /\ localCache = << >>
    /\ storageFull = FALSE
    /\ liveOk = TRUE
    /\ bundledFiles = {}
    /\ fjCall = [op |-> "none"]

\* a built branch with its two trains, ticked frame by frame
InitSpecTrains == InitTrains /\ InitRegistry /\ InitNoFetch /\ InitNoBuild /\ InitGeo /\ InitUi

SpecTrains == InitSpecTrains /\ [][NextTrains]_vars

\* calls of the station registry
InitSpecRegistry == InitNoTrains /\ InitRegistry /\ InitNoFetch /\ InitNoBuild /\ InitGeo /\ InitUi

SpecRegistry == InitSpecRegistry /\ [][NextRegistry]_vars

\* calls of fetchJson in a changing environment
InitSpecFetch == InitNoTrains /\ InitRegistry /\ InitFetch /\ InitNoBuild /\ InitGeo /\ InitUi

SpecFetch == InitSpecFetch /\ [][NextFetch]_vars

\* one run of buildNetworkMvp in a changing environment
InitSpecBuild == InitNoTrains /\ InitRegistry /\ InitBuild /\ InitGeo /\ InitUi

SpecBuild == InitSpecBuild /\ [][NextBuild]_vars

\* the build when every awaited fetch settles: each step of buildNetworkMvp
\* that can run does run (main.js 873-1165 awaits nothing but fetches)
SpecBuildFair ==
    /\ InitSpecBuild
    /\ [][NextBuild]_vars
    /\ WF_vars(BuildStart) /\ WF_vars(FetchLine) /\ WF_vars(RetryLine) /\ WF_vars(Summary)

\* the load of the network with the camera controls and the solo selector
InitSpecUi == InitNoTrains /\ InitRegistry /\ InitBuild /\ InitGeo /\ InitUiLoad

SpecUi == InitSpecUi /\ [][NextUi]_vars

\* trains on a loop of 96 m, which a step at the time scale 8 and a frame
\* delta of 1 s covers exactly once (12 m/s * 8 s); animation frames keep
\* coming (requestAnimationFrame, main.js 1682)
InitSpecProgress ==
    /\ paused = FALSE
    /\ timeScale = 8
    /\ stationUs = StationUsFromPolyline(<<48, 48>>)
    /\ curveLengthM = SumSeq(<<48, 48>>)
    /\ trains = [tr \in Trains |->
                   MakeTrain(DirOf(tr), IF tr = 1 THEN 5 ELSE 13, Len(stationUs))]
    /\ simDt = 0
    /\ crossed = [tr \in Trains |-> FALSE]
    /\ negDelta = FALSE
    /\ InitRegistry /\ InitNoFetch /\ InitNoBuild /\ InitGeo /\ InitUi

SpecProgress == InitSpecProgress /\ [][NextTrains]_vars /\ WF_vars(TickPositive)

\* calls of the route-assembly functions
InitSpecAssembly == InitNoTrains /\ InitRegistry /\ InitNoFetch /\ InitNoBuild /\ InitGeo /\ InitUi

SpecAssembly == InitSpecAssembly /\ [][NextAssembly]_vars

\* line builds over the shared station registry
InitSpecLines == InitNoTrains /\ InitRegistry /\ InitNoFetch /\ InitNoBuild /\ InitGeo /\ InitUi

SpecLines == InitSpecLines /\ [][NextLines]_vars

====
